---- MODULE Spec2Model ----
(***************************************************************************)
(* libsyntax/util/interner.rs: the generic Interner<T> (instantiated, as   *)
(* in its tests, at T = Rc<String>) and the StrInterner.                   *)
(*                                                                         *)
(* One instance is under observation: kind says which of the two structs   *)
(* it is.  map and vect are the struct's two fields.  An Rc<String> is a   *)
(* record [text, ptr]: ptr is the identity of the heap allocation, text    *)
(* its content.  Eq and Hash of Rc<String> go by content, so the HashMap   *)
(* is a function from texts to Names.  Position i of the Rust Vec is       *)
(* position i + 1 of the TLA+ sequence.                                    *)
(*                                                                         *)
(* last and the variables after it are history variables: they             *)
(* record what callers have seen and never influence map or vect.  twin    *)
(* is an Interner<Rc<String>> run beside a StrInterner, cells the borrow   *)
(* state of the two RefCells.  Spec is the interner under a bounded number *)
(* of calls; SpecWide is the handle computation at store lengths around    *)
(* 2^32, with the store given by its length.                               *)
(***************************************************************************)
EXTENDS Integers, Sequences, FiniteSets, TLC

\* Bounds of the model.
MaxCalls == 4      \* intern, gensym, gensym_copy and reset calls between two clears
MaxOther == 1      \* interning calls used to build a table handed to reset
WideMargin == 2    \* SpecWide: distance of the first store length from a power of 2^16
WideCalls == 3     \* SpecWide: appending calls between two clears

\* The texts callers intern (tests use "dog", "cat", "zebra").
Texts == {"dog", "cat"}

\* Option<Name>::None, and "no value" in a call record.
NoName == -1
NoVal == "-"

\* The handle the test i1 looks up in an empty table.
TestHandle == 13

\* The handles callers may present: every position a table can have within
\* the bounds, and the test's 13, which is beyond all of them.
Names == 0 .. (MaxCalls + MaxOther - 1) \cup {TestHandle}

VARIABLES
    kind,      \* "Interner" (Interner<Rc<String>>) or "StrInterner"
    map,       \* the field map: text -> Name
    vect,      \* the field vect: sequence of Rc<String>
    last,      \* the most recent call: operation, arguments, result
    calls,     \* intern + gensym + gensym_copy calls since creation or the last clear
    resets,    \* reset calls since creation or the last clear
    appends,   \* since creation or the last clear or reset: intern calls whose value
               \* the dedup map did not hold, plus gensym and gensym_copy calls
    base,      \* len() right after creation (0), the last clear (0) or the last reset
    issued,    \* [op, val, h]: calls that returned handle h since creation or the
               \* last clear or reset; val is the text interned
    before,    \* the same, for calls since the last clear but before the last reset
    stale,     \* the largest handle this instance issued before its last clear
               \* (NoName when there is none)
    inherited, \* the [op, val, h] calls that built the table the last reset installed
    prefilled, \* the list of texts prefill was given, while the table it built is in
               \* use (<<>> after new, and after clear or reset)
    twin,      \* beside a StrInterner: an Interner<Rc<String>> built by the same
               \* constructor and given the same calls, with the result of its
               \* most recent call
    cells,     \* the borrow state of the two RefCells after the most recent call,
               \* and whether that call panicked on a borrow
    wide       \* SpecWide only: a store given by its length alone, and the most
               \* recent appending call on it

vars == <<kind, map, vect, last, calls, resets, appends, base, issued, before, stale,
          inherited, prefilled, twin, cells, wide>>

----------------------------------------------------------------------------
\* Primitive types.

\* ast::Name is a tuple struct around a u32.
Name(n) == n

\* `x as u32` of a usize: x mod 2^32, written so that no intermediate value
\* leaves the range of the model checker's integers.
AsU32(n) == ((n \div 2^16) % 2^16) * 2^16 + (n % 2^16)

\* A usize of a 64-bit target is [hi, lo], standing for hi * 2^16 + lo with
\* lo < 2^16, where it can exceed the range of the model checker's integers.
Half == 2^16

WideZero == [hi |-> 0, lo |-> 0]

\* len + 1, as Vec::push makes it.
WideSucc(w) ==
    IF w.lo = Half - 1 THEN [hi |-> w.hi + 1, lo |-> 0]
                       ELSE [hi |-> w.hi, lo |-> w.lo + 1]

\* `x as u32` of such a usize: x mod 2^32, as AsU32.
WideAsU32(w) == [hi |-> w.hi % Half, lo |-> w.lo]

\* Name::usize: the u32 widened to usize.
Usize(idx) == idx

\* HashMap::new()
EmptyMap == [k \in {} |-> NoName]

\* HashMap::insert: adds the key or overwrites its value.
MapInsert(m, k, n) == [x \in DOMAIN m \cup {k} |-> IF x = k THEN n ELSE m[x]]

\* Hash and Eq of Rc<String> (and Borrow<str>): by content.
Key(val) == val.text

\* The allocations a Vec<Rc<String>> keeps alive.
Live(v) == {v[i].ptr : i \in 1 .. Len(v)}

\* Rc::new(text.to_owned()): a new allocation holding a copy of the text.  The
\* allocation is one that is not alive; the least such identity is taken.
RcNew(text, live) ==
    [text |-> text,
     ptr  |-> CHOOSE p \in 0 .. Cardinality(live) :
                  p \notin live /\ \A q \in 0 .. p - 1 : q \in live]

\* Vec indexing v[i]: a panic when i is out of bounds.
Index(v, i) ==
    IF i < Len(v) THEN [fatal |-> FALSE, out |-> v[i + 1]]
                  ELSE [fatal |-> TRUE, out |-> [text |-> NoVal, ptr |-> NoName]]

----------------------------------------------------------------------------
\* RefCell.  The borrow state of a cell is [writing, reading]: whether a
\* RefMut is alive, and how many Refs are.  An operation is described by the
\* borrows it takes and the guards it drops, in the order of the code: a
\* guard bound by let is dropped at the end of its scope (the later binding
\* first), a temporary guard at the end of its statement, and both when a
\* panic unwinds through them.

UnusedCell == [writing |-> FALSE, reading |-> 0]

UnusedCells == [map |-> UnusedCell, vect |-> UnusedCell, panicked |-> FALSE]

Borrow(cell) == [act |-> "borrow", cell |-> cell]
BorrowMut(cell) == [act |-> "borrow_mut", cell |-> cell]
DropRef(cell) == [act |-> "drop", cell |-> cell, of |-> "borrow"]
DropRefMut(cell) == [act |-> "drop", cell |-> cell, of |-> "borrow_mut"]

\* Drop of a guard: a RefMut ends the writing, a Ref is one reader less.
Release(c, cell, of) ==
    IF of = "borrow_mut" THEN [c EXCEPT ![cell].writing = FALSE]
                         ELSE [c EXCEPT ![cell].reading = @ - 1]

\* A panic: the guards the operation holds are dropped while it unwinds.
RECURSIVE Unwind(_, _)
Unwind(c, held) ==
    IF held = <<>>
        THEN [c EXCEPT !.panicked = TRUE]
        ELSE LET g == held[Len(held)]
             IN  Unwind(Release(c, g.cell, g.act), SubSeq(held, 1, Len(held) - 1))

\* held without its last guard of the given kind on the given cell.
Dropped(held, cell, of) ==
    LET i == CHOOSE k \in 1 .. Len(held) :
                 /\ held[k].cell = cell /\ held[k].act = of
                 /\ \A j \in k + 1 .. Len(held) :
                        ~(held[j].cell = cell /\ held[j].act = of)
    IN  SubSeq(held, 1, i - 1) \o SubSeq(held, i + 1, Len(held))

\* The cells after an operation that takes and drops the borrows evs, in
\* order, holding the guards held.  borrow panics when the cell is being
\* written, borrow_mut when it is borrowed in any way.
RECURSIVE RunCells(_, _, _)
RunCells(c, evs, held) ==
    IF evs = <<>>
        THEN c
        ELSE LET e == Head(evs)
             IN  CASE e.act = "borrow" ->
                        IF c[e.cell].writing
                            THEN Unwind(c, held)
                            ELSE RunCells([c EXCEPT ![e.cell].reading = @ + 1],
                                          Tail(evs), Append(held, e))
                   [] e.act = "borrow_mut" ->
                        IF c[e.cell].writing \/ c[e.cell].reading > 0
                            THEN Unwind(c, held)
                            ELSE RunCells([c EXCEPT ![e.cell].writing = TRUE],
                                          Tail(evs), Append(held, e))
                   [] e.act = "drop" ->
                        RunCells(Release(c, e.cell, e.of), Tail(evs),
                                 Dropped(held, e.cell, e.of))

----------------------------------------------------------------------------
\* Interner<T>, T = Rc<String>.  t is [map, vect]; a mutating operation
\* returns the new map and vect with its result.

Interner_new == [map |-> EmptyMap, vect |-> <<>>]

\* Mutation of Interner_intern: the push is forgotten (the map is updated, the
\* vector is not).
Interner_intern_nopush(t, val) ==
    IF Key(val) \in DOMAIN t.map
        THEN [map |-> t.map, vect |-> t.vect, ret |-> t.map[Key(val)]]
        ELSE LET new_idx == Name(AsU32(Len(t.vect)))
             IN  [map  |-> MapInsert(t.map, Key(val), new_idx),
                  vect |-> t.vect,
                  ret  |-> new_idx]

Interner_intern(t, val) ==
    IF Key(val) \in DOMAIN t.map
        THEN [map |-> t.map, vect |-> t.vect, ret |-> t.map[Key(val)]]
        ELSE LET new_idx == Name(AsU32(Len(t.vect)))
             IN  [map  |-> MapInsert(t.map, Key(val), new_idx),
                  vect |-> Append(t.vect, val),
                  ret  |-> new_idx]

\* Mutation of Interner_gensym: the new index is off by one.
Interner_gensym_offbyone(t, val) ==
    LET new_idx == Name(AsU32(Len(t.vect) + 1))
    IN  [map |-> t.map, vect |-> Append(t.vect, val), ret |-> new_idx]

\* Mutation of Interner_gensym: the value is entered in the dedup map too.
Interner_gensym_mapped(t, val) ==
    LET new_idx == Name(AsU32(Len(t.vect)))
    IN  [map  |-> MapInsert(t.map, Key(val), new_idx),
         vect |-> Append(t.vect, val),
         ret  |-> new_idx]

\* Mutation of Interner_gensym: the value is put in front of the vector.
Interner_gensym_front(t, val) ==
    LET new_idx == Name(AsU32(Len(t.vect)))
    IN  [map |-> t.map, vect |-> <<val>> \o t.vect, ret |-> new_idx]

Interner_gensym(t, val) ==
    LET new_idx == Name(AsU32(Len(t.vect)))
    IN  [map |-> t.map, vect |-> Append(t.vect, val), ret |-> new_idx]

\* Mutation of Interner_get: an out-of-range handle yields a default value
\* instead of a panic.
Interner_get_default(t, idx) ==
    IF Usize(idx) < Len(t.vect)
        THEN [fatal |-> FALSE, out |-> t.vect[Usize(idx) + 1]]
        ELSE [fatal |-> FALSE, out |-> [text |-> NoVal, ptr |-> NoName]]

Interner_get(t, idx) == Index(t.vect, Usize(idx))

\* Mutation of Interner_len: the size of the map instead of the vector.
Interner_len_of_map(t) == Cardinality(DOMAIN t.map)

Interner_len(t) == Len(t.vect)

\* Mutation of Interner_find: the vector is searched instead of the map.
Interner_find_in_vect(t, q) ==
    IF \E i \in 1 .. Len(t.vect) : Key(t.vect[i]) = q
        THEN (CHOOSE i \in 1 .. Len(t.vect) :
                  Key(t.vect[i]) = q /\ \A j \in 1 .. i - 1 : Key(t.vect[j]) # q) - 1
        ELSE NoName

Interner_find(t, q) == IF q \in DOMAIN t.map THEN t.map[q] ELSE NoName

\* The borrows of the operations of Interner.  intern holds the RefMut of map
\* to its end, and on a miss takes that of vect as well.
Interner_intern_cells(t, val) ==
    IF Key(val) \in DOMAIN t.map
        THEN <<BorrowMut("map"), DropRefMut("map")>>
        ELSE <<BorrowMut("map"), BorrowMut("vect"), DropRefMut("vect"), DropRefMut("map")>>

Interner_gensym_cells == <<BorrowMut("vect"), DropRefMut("vect")>>

\* An index panic in get drops the Ref while unwinding.
Interner_get_cells == <<Borrow("vect"), DropRef("vect")>>

Interner_len_cells == <<Borrow("vect"), DropRef("vect")>>

Interner_find_cells == <<Borrow("map"), DropRef("map")>>

Interner_clear_cells ==
    <<BorrowMut("map"), DropRefMut("map"), BorrowMut("vect"), DropRefMut("vect")>>

\* Mutation of Interner_clear: only the map is replaced.
Interner_clear_map_only(t) == [map |-> EmptyMap, vect |-> t.vect]

Interner_clear(t) == [map |-> EmptyMap, vect |-> <<>>]

----------------------------------------------------------------------------
\* StrInterner.  Its arguments are &str: texts.

StrInterner_new == [map |-> EmptyMap, vect |-> <<>>]

StrInterner_len(t) == Len(t.vect)

\* Mutation of StrInterner_intern: the lookup in the dedup map is skipped.
StrInterner_intern_nolookup(t, text) ==
    LET new_idx == Name(AsU32(StrInterner_len(t)))
        val     == RcNew(text, Live(t.vect))
    IN  [map  |-> MapInsert(t.map, Key(val), new_idx),
         vect |-> Append(t.vect, val),
         ret  |-> new_idx]

StrInterner_intern(t, text) ==
    IF text \in DOMAIN t.map
        THEN [map |-> t.map, vect |-> t.vect, ret |-> t.map[text]]
        ELSE LET new_idx == Name(AsU32(StrInterner_len(t)))
                 val     == RcNew(text, Live(t.vect))
             IN  [map  |-> MapInsert(t.map, Key(val), new_idx),
                  vect |-> Append(t.vect, val),
                  ret  |-> new_idx]

\* Mutation of StrInterner_gensym: an interned entry of the same text is reused.
StrInterner_gensym_reuse(t, text) ==
    IF text \in DOMAIN t.map
        THEN [map |-> t.map, vect |-> t.vect, ret |-> t.map[text]]
        ELSE LET new_idx == Name(AsU32(StrInterner_len(t)))
             IN  [map  |-> t.map,
                  vect |-> Append(t.vect, RcNew(text, Live(t.vect))),
                  ret  |-> new_idx]

StrInterner_gensym(t, text) ==
    LET new_idx == Name(AsU32(StrInterner_len(t)))
    IN  [map  |-> t.map,
         vect |-> Append(t.vect, RcNew(text, Live(t.vect))),
         ret  |-> new_idx]

\* Mutation of StrInterner_gensym_copy: an empty entry is pushed first and
\* overwritten with the copy after the index.
StrInterner_gensym_copy_push_first(t, idx) ==
    LET new_idx  == Name(AsU32(StrInterner_len(t)))
        existing == Index(t.vect, Usize(idx))
    IN  IF existing.fatal
            THEN [map |-> t.map, vect |-> Append(t.vect, RcNew("", Live(t.vect))),
                  ret |-> NoName, fatal |-> TRUE]
            ELSE [map |-> t.map, vect |-> Append(t.vect, existing.out),
                  ret |-> new_idx, fatal |-> FALSE]

\* Mutation of StrInterner_gensym_copy: the copy is entered in the dedup map.
StrInterner_gensym_copy_mapped(t, idx) ==
    LET new_idx  == Name(AsU32(StrInterner_len(t)))
        existing == Index(t.vect, Usize(idx))
    IN  IF existing.fatal
            THEN [map |-> t.map, vect |-> t.vect, ret |-> NoName, fatal |-> TRUE]
            ELSE [map |-> MapInsert(t.map, Key(existing.out), new_idx),
                  vect |-> Append(t.vect, existing.out),
                  ret |-> new_idx, fatal |-> FALSE]

\* The index panics before the push: nothing is appended then.
StrInterner_gensym_copy(t, idx) ==
    LET new_idx  == Name(AsU32(StrInterner_len(t)))
        existing == Index(t.vect, Usize(idx))
    IN  IF existing.fatal
            THEN [map |-> t.map, vect |-> t.vect, ret |-> NoName, fatal |-> TRUE]
            ELSE [map |-> t.map, vect |-> Append(t.vect, existing.out),
                  ret |-> new_idx, fatal |-> FALSE]

\* Mutation of StrInterner_get: the index is off by one.
StrInterner_get_offbyone(t, idx) == Index(t.vect, Usize(idx) + 1)

\* Mutation of StrInterner_get: a handle beyond the end is clamped to the last
\* entry.
StrInterner_get_clamped(t, idx) ==
    IF Len(t.vect) = 0
        THEN Index(t.vect, Usize(idx))
        ELSE Index(t.vect, IF Usize(idx) < Len(t.vect) THEN Usize(idx)
                                                       ELSE Len(t.vect) - 1)

StrInterner_get(t, idx) == Index(t.vect, Usize(idx))

StrInterner_find(t, q) == IF q \in DOMAIN t.map THEN t.map[q] ELSE NoName

\* Mutation of StrInterner_clear: only the vector is replaced.
StrInterner_clear_vect_only(t) == [map |-> t.map, vect |-> <<>>]

StrInterner_clear(t) == [map |-> EmptyMap, vect |-> <<>>]

\* The borrows of the operations of StrInterner.  intern holds the RefMut of
\* map to its end; on a miss it calls self.len(), which borrows vect and
\* drops the Ref, and then takes the RefMut of vect for the push.
StrInterner_len_cells == <<Borrow("vect"), DropRef("vect")>>

\* Mutation of StrInterner_intern_cells: the RefMut of vect is bound before
\* self.len() is called, as Interner::intern binds it before (*vect).len().
StrInterner_intern_cells_nested(t, text) ==
    IF text \in DOMAIN t.map
        THEN <<BorrowMut("map"), DropRefMut("map")>>
        ELSE <<BorrowMut("map"), BorrowMut("vect")>> \o StrInterner_len_cells
                 \o <<DropRefMut("vect"), DropRefMut("map")>>

StrInterner_intern_cells(t, text) ==
    IF text \in DOMAIN t.map
        THEN <<BorrowMut("map"), DropRefMut("map")>>
        ELSE <<BorrowMut("map")>> \o StrInterner_len_cells
                 \o <<BorrowMut("vect"), DropRefMut("vect"), DropRefMut("map")>>

StrInterner_gensym_cells ==
    StrInterner_len_cells \o <<BorrowMut("vect"), DropRefMut("vect")>>

\* An index panic in gensym_copy drops the RefMut while unwinding.
StrInterner_gensym_copy_cells ==
    StrInterner_len_cells \o <<BorrowMut("vect"), DropRefMut("vect")>>

StrInterner_get_cells == <<Borrow("vect"), DropRef("vect")>>

StrInterner_find_cells == <<Borrow("map"), DropRef("map")>>

StrInterner_clear_cells ==
    <<BorrowMut("map"), DropRefMut("map"), BorrowMut("vect"), DropRefMut("vect")>>

\* into_inner consumes the cells of other: it borrows nothing.
StrInterner_reset_cells ==
    <<BorrowMut("map"), DropRefMut("map"), BorrowMut("vect"), DropRefMut("vect")>>

\* Mutation of StrInterner_reset: the vector is replaced, the map is kept.
StrInterner_reset_vect_only(t, other) == [map |-> t.map, vect |-> other.vect]

StrInterner_reset(t, other) == [map |-> other.map, vect |-> other.vect]

----------------------------------------------------------------------------
\* prefill: new() followed by intern of every element of init, in list order.
\* The handles that intern returns are dropped.

RECURSIVE Interner_prefill_loop(_, _)
Interner_prefill_loop(rv, init) ==
    IF init = <<>>
        THEN rv
        ELSE LET r == Interner_intern(rv, Head(init))
             IN  Interner_prefill_loop([map |-> r.map, vect |-> r.vect], Tail(init))

\* The borrows of prefill: those of its intern calls, one after the other.
RECURSIVE Interner_prefill_cells(_, _)
Interner_prefill_cells(rv, init) ==
    IF init = <<>>
        THEN <<>>
        ELSE LET r == Interner_intern(rv, Head(init))
             IN  Interner_intern_cells(rv, Head(init))
                     \o Interner_prefill_cells([map |-> r.map, vect |-> r.vect],
                                                Tail(init))

RECURSIVE StrInterner_prefill_cells(_, _)
StrInterner_prefill_cells(rv, init) ==
    IF init = <<>>
        THEN <<>>
        ELSE LET r == StrInterner_intern(rv, Head(init))
             IN  StrInterner_intern_cells(rv, Head(init))
                     \o StrInterner_prefill_cells([map |-> r.map, vect |-> r.vect],
                                                   Tail(init))

\* Mutation of Interner_prefill: the list is walked from its end.
Interner_prefill_reversed(init) ==
    Interner_prefill_loop(Interner_new,
                          [i \in 1 .. Len(init) |-> init[Len(init) + 1 - i]])

Interner_prefill(init) == Interner_prefill_loop(Interner_new, init)

RECURSIVE StrInterner_prefill_loop(_, _)
StrInterner_prefill_loop(rv, init) ==
    IF init = <<>>
        THEN rv
        ELSE LET r == StrInterner_intern(rv, Head(init))
             IN  StrInterner_prefill_loop([map |-> r.map, vect |-> r.vect], Tail(init))

\* Mutation of StrInterner_prefill: every element gets an entry of its own,
\* an equal one before it or not.
RECURSIVE StrInterner_prefill_nodedup_loop(_, _)
StrInterner_prefill_nodedup_loop(rv, init) ==
    IF init = <<>>
        THEN rv
        ELSE LET r == StrInterner_intern_nolookup(rv, Head(init))
             IN  StrInterner_prefill_nodedup_loop([map |-> r.map, vect |-> r.vect],
                                                  Tail(init))

StrInterner_prefill_nodedup(init) ==
    StrInterner_prefill_nodedup_loop(StrInterner_new, init)

StrInterner_prefill(init) == StrInterner_prefill_loop(StrInterner_new, init)

----------------------------------------------------------------------------
\* The tables a caller can hand to reset: every StrInterner built from
\* StrInterner::new() by at most MaxOther interning calls.  log records the
\* calls that built it, as [op, val, h].

BuildIntern(o, text) ==
    LET r == StrInterner_intern(o, text)
    IN  [map |-> r.map, vect |-> r.vect,
         log |-> o.log \cup {[op |-> "intern", val |-> text, h |-> r.ret]}]

BuildGensym(o, text) ==
    LET r == StrInterner_gensym(o, text)
    IN  [map |-> r.map, vect |-> r.vect,
         log |-> o.log \cup {[op |-> "gensym", val |-> text, h |-> r.ret]}]

BuildGensymCopy(o, idx) ==
    LET r == StrInterner_gensym_copy(o, idx)
    IN  [map |-> r.map, vect |-> r.vect,
         log |-> o.log \cup {[op |-> "gensym_copy", val |-> o.vect[idx + 1].text,
                              h |-> r.ret]}]

RECURSIVE BuiltTables(_)
BuiltTables(n) ==
    IF n = 0
        THEN {[map |-> StrInterner_new.map, vect |-> StrInterner_new.vect, log |-> {}]}
        ELSE LET S == BuiltTables(n - 1)
             IN  S \cup {BuildIntern(o, text) : o \in S, text \in Texts}
                   \cup {BuildGensym(o, text) : o \in S, text \in Texts}
                   \cup UNION {{BuildGensymCopy(o, idx) : idx \in 0 .. Len(o.vect) - 1}
                               : o \in S}

OtherTables == BuiltTables(MaxOther)

----------------------------------------------------------------------------
\* The instance and the calls made on it.

Tab == [map |-> map, vect |-> vect]

\* What get, find and len return when called in the current state.
GetNow(idx) ==
    IF kind = "Interner" THEN Interner_get(Tab, idx) ELSE StrInterner_get(Tab, idx)

FindNow(text) ==
    IF kind = "Interner" THEN Interner_find(Tab, text) ELSE StrInterner_find(Tab, text)

LenNow == IF kind = "Interner" THEN Interner_len(Tab) ELSE StrInterner_len(Tab)

NoCall == [op |-> "none", val |-> NoVal, idx |-> NoName, len0 |-> 0,
           ret |-> NoName, out |-> NoVal, fatal |-> FALSE,
           again |-> FALSE, ret0 |-> NoName]

\* The record of a call: its operation, its text argument (val) or handle
\* argument (idx), len() when it was made (len0), the Name, Option<Name> or
\* usize it returned (ret), the text of the value it returned (out), and
\* whether it panicked instead of returning (fatal).  again says that the
\* call before it was the same operation with the same arguments, and ret0
\* is what that call returned.
Call(op, val, idx, ret, out, fatal) ==
    LET again == last.op = op /\ last.val = val /\ last.idx = idx
    IN  [op |-> op, val |-> val, idx |-> idx, len0 |-> Len(vect),
         ret |-> ret, out |-> out, fatal |-> fatal,
         again |-> again, ret0 |-> IF again THEN last.ret ELSE NoName]

\* A call that returned a handle: intern, gensym or gensym_copy.  text is the
\* text interned; absent says that an entry had to be made for it.
Interned(op, val, idx, text, absent, r) ==
    /\ map' = r.map
    /\ vect' = r.vect
    /\ last' = Call(op, val, idx, r.ret, NoVal, FALSE)
    /\ calls' = calls + 1
    /\ appends' = IF absent THEN appends + 1 ELSE appends
    /\ issued' = issued \cup {[op |-> op, val |-> text, h |-> r.ret]}
    /\ UNCHANGED <<kind, resets, base, before, stale, inherited, prefilled, wide>>

\* A call that changes neither field: get, len, find, a panicking gensym_copy.
Queried(op, val, idx, ret, out, fatal) ==
    /\ last' = Call(op, val, idx, ret, out, fatal)
    /\ UNCHANGED <<kind, map, vect, calls, resets, appends, base, issued, before, stale,
                   inherited, prefilled, wide>>

\* A call that panicked; r holds the fields as the panic left them.
Panicked(op, val, idx, r) ==
    /\ map' = r.map
    /\ vect' = r.vect
    /\ last' = Call(op, val, idx, NoName, NoVal, TRUE)
    /\ UNCHANGED <<kind, calls, resets, appends, base, issued, before, stale, inherited,
                   prefilled, wide>>

\* The largest element of a non-empty set of integers.
Max(S) == CHOOSE x \in S : \A y \in S : y <= x

\* clear: every handle issued so far becomes stale.
Cleared(op, r) ==
    /\ map' = r.map
    /\ vect' = r.vect
    /\ last' = Call(op, NoVal, NoName, NoName, NoVal, FALSE)
    /\ calls' = 0
    /\ resets' = 0
    /\ appends' = 0
    /\ base' = 0
    /\ issued' = {}
    /\ before' = {}
    /\ stale' = Max({stale} \cup {c.h : c \in issued \cup before})
    /\ inherited' = {}
    /\ prefilled' = <<>>
    /\ UNCHANGED <<kind, wide>>

\* The lists of texts a caller can hand to prefill.  Every element costs one
\* intern call.
PrefillLists == UNION {[1 .. n -> Texts] : n \in 0 .. MaxCalls}

\* The &[Rc<String>] a caller builds from a list of texts to hand it to
\* Interner::prefill: every element is an allocation of its own, as in test i3.
RcList(texts) == [i \in 1 .. Len(texts) |-> [text |-> texts[i], ptr |-> i - 1]]

\* The instance right after its constructor has returned table t.  init is
\* the list of texts the constructor interned (<<>> for new): these intern
\* calls count as calls made on the instance.
Created(t, op, init) ==
    /\ map = t.map
    /\ vect = t.vect
    /\ last = [NoCall EXCEPT !.op = op]
    /\ calls = Len(init)
    /\ resets = 0
    /\ appends = Cardinality({init[i] : i \in 1 .. Len(init)})
    /\ base = 0
    /\ issued = {[op |-> "intern", val |-> init[i],
                  h |-> IF init[i] \in DOMAIN t.map THEN t.map[init[i]] ELSE NoName]
                     : i \in 1 .. Len(init)}
    /\ before = {}
    /\ stale = NoName
    /\ inherited = {}
    /\ prefilled = init

\* No twin: the instance is an Interner itself, or the StrInterner was given a
\* call that Interner does not have (gensym_copy, reset).
NoTwin == [ok |-> FALSE, map |-> EmptyMap, vect |-> <<>>,
           ret |-> NoName, out |-> NoVal, fatal |-> FALSE]

\* The twin with fields t after a call that returned ret (a Name, Option<Name>
\* or usize) or a value of text out, or panicked.
Twin(t, ret, out, fatal) ==
    [ok |-> TRUE, map |-> t.map, vect |-> t.vect,
     ret |-> ret, out |-> out, fatal |-> fatal]

\* The calls on the twin.  Its caller allocates the Rc<String> it passes in.
TwinIntern(text) ==
    IF twin.ok
        THEN LET r == Interner_intern(twin, RcNew(text, Live(twin.vect)))
             IN  Twin(r, r.ret, NoVal, FALSE)
        ELSE NoTwin

TwinGensym(text) ==
    IF twin.ok
        THEN LET r == Interner_gensym(twin, RcNew(text, Live(twin.vect)))
             IN  Twin(r, r.ret, NoVal, FALSE)
        ELSE NoTwin

TwinGet(idx) ==
    IF twin.ok
        THEN LET g == Interner_get(twin, idx)
             IN  Twin(twin, NoName, g.out.text, g.fatal)
        ELSE NoTwin

TwinLen == IF twin.ok THEN Twin(twin, Interner_len(twin), NoVal, FALSE) ELSE NoTwin

TwinFind(text) ==
    IF twin.ok THEN Twin(twin, Interner_find(twin, text), NoVal, FALSE) ELSE NoTwin

\* clear: a twin that was lost starts again from Interner::new().
TwinClear ==
    IF twin.ok THEN Twin(Interner_clear(twin), NoName, NoVal, FALSE)
               ELSE Twin(Interner_new, NoName, NoVal, FALSE)

\* A gensym_copy that panicked: the twin is given no call.
TwinSkipped == IF twin.ok THEN Twin(twin, NoName, NoVal, FALSE) ELSE NoTwin

\* The cells after a call that takes and drops the borrows evs.  No call of
\* the code panics on a borrow (C18), so the actions do not describe what such
\* a panic would leave in map and vect.
Ran(evs) == RunCells([cells EXCEPT !.panicked = FALSE], evs, <<>>)

InternerNew ==
    /\ kind = "Interner"
    /\ Created(Interner_new, "none", <<>>)
    /\ twin = NoTwin
    /\ cells = UnusedCells

InternerPrefill(init) ==
    /\ kind = "Interner"
    /\ Created(Interner_prefill(RcList(init)), "prefill", init)
    /\ twin = NoTwin
    /\ cells = RunCells(UnusedCells, Interner_prefill_cells(Interner_new, RcList(init)),
                        <<>>)

StrInternerNew ==
    /\ kind = "StrInterner"
    /\ Created(StrInterner_new, "none", <<>>)
    /\ twin = Twin(Interner_new, NoName, NoVal, FALSE)
    /\ cells = UnusedCells

StrInternerPrefill(init) ==
    /\ kind = "StrInterner"
    /\ Created(StrInterner_prefill(init), "prefill", init)
    /\ twin = Twin(Interner_prefill(RcList(init)), NoName, NoVal, FALSE)
    /\ cells = RunCells(UnusedCells, StrInterner_prefill_cells(StrInterner_new, init),
                        <<>>)

\* The store of SpecWide when it is not in use.
NoWide == [len |-> WideZero, op |-> "none", ret |-> WideZero, pos |-> WideZero,
           calls |-> 0, issued |-> {}, fresh |-> TRUE]

Init ==
    /\ \/ InternerNew
       \/ \E init \in PrefillLists : InternerPrefill(init)
       \/ StrInternerNew
       \/ \E init \in PrefillLists : StrInternerPrefill(init)
    /\ wide = NoWide

\* Interner<Rc<String>>.  The caller allocates the Rc it passes in.
InternerIntern(text) ==
    /\ kind = "Interner"
    /\ calls + resets < MaxCalls
    /\ Interned("intern", text, NoName, text, text \notin DOMAIN map,
                Interner_intern(Tab, RcNew(text, Live(vect))))
    /\ UNCHANGED twin
    /\ cells' = Ran(Interner_intern_cells(Tab, RcNew(text, Live(vect))))

InternerGensym(text) ==
    /\ kind = "Interner"
    /\ calls + resets < MaxCalls
    /\ Interned("gensym", text, NoName, text, TRUE,
                Interner_gensym(Tab, RcNew(text, Live(vect))))
    /\ UNCHANGED twin
    /\ cells' = Ran(Interner_gensym_cells)

InternerGet(idx) ==
    /\ kind = "Interner"
    /\ LET g == Interner_get(Tab, idx)
       IN  Queried("get", NoVal, idx, NoName, g.out.text, g.fatal)
    /\ UNCHANGED twin
    /\ cells' = Ran(Interner_get_cells)

InternerLen ==
    /\ kind = "Interner"
    /\ Queried("len", NoVal, NoName, Interner_len(Tab), NoVal, FALSE)
    /\ UNCHANGED twin
    /\ cells' = Ran(Interner_len_cells)

InternerFind(text) ==
    /\ kind = "Interner"
    /\ Queried("find", text, NoName, Interner_find(Tab, text), NoVal, FALSE)
    /\ UNCHANGED twin
    /\ cells' = Ran(Interner_find_cells)

InternerClear ==
    /\ kind = "Interner"
    /\ Cleared("clear", Interner_clear(Tab))
    /\ UNCHANGED twin
    /\ cells' = Ran(Interner_clear_cells)

\* StrInterner.
StrInternerIntern(text) ==
    /\ kind = "StrInterner"
    /\ calls + resets < MaxCalls
    /\ Interned("intern", text, NoName, text, text \notin DOMAIN map,
                StrInterner_intern(Tab, text))
    /\ twin' = TwinIntern(text)
    /\ cells' = Ran(StrInterner_intern_cells(Tab, text))

StrInternerGensym(text) ==
    /\ kind = "StrInterner"
    /\ calls + resets < MaxCalls
    /\ Interned("gensym", text, NoName, text, TRUE, StrInterner_gensym(Tab, text))
    /\ twin' = TwinGensym(text)
    /\ cells' = Ran(StrInterner_gensym_cells)

StrInternerGensymCopy(idx) ==
    /\ kind = "StrInterner"
    /\ calls + resets < MaxCalls
    /\ LET r == StrInterner_gensym_copy(Tab, idx)
       IN  IF r.fatal
               THEN /\ Panicked("gensym_copy", NoVal, idx, r)
                    /\ twin' = TwinSkipped
               ELSE /\ Interned("gensym_copy", NoVal, idx, vect[idx + 1].text, TRUE, r)
                    /\ twin' = NoTwin
    /\ cells' = Ran(StrInterner_gensym_copy_cells)

StrInternerGet(idx) ==
    /\ kind = "StrInterner"
    /\ LET g == StrInterner_get(Tab, idx)
       IN  Queried("get", NoVal, idx, NoName, g.out.text, g.fatal)
    /\ twin' = TwinGet(idx)
    /\ cells' = Ran(StrInterner_get_cells)

StrInternerLen ==
    /\ kind = "StrInterner"
    /\ Queried("len", NoVal, NoName, StrInterner_len(Tab), NoVal, FALSE)
    /\ twin' = TwinLen
    /\ cells' = Ran(StrInterner_len_cells)

StrInternerFind(text) ==
    /\ kind = "StrInterner"
    /\ Queried("find", text, NoName, StrInterner_find(Tab, text), NoVal, FALSE)
    /\ twin' = TwinFind(text)
    /\ cells' = Ran(StrInterner_find_cells)

StrInternerClear ==
    /\ kind = "StrInterner"
    /\ Cleared("clear", StrInterner_clear(Tab))
    /\ twin' = TwinClear
    /\ cells' = Ran(StrInterner_clear_cells)

\* reset consumes another StrInterner; what this instance issued before it is
\* kept in before, and the calls that built the other table in inherited.
StrInternerReset(other) ==
    /\ kind = "StrInterner"
    /\ calls + resets < MaxCalls
    /\ LET r == StrInterner_reset(Tab, other)
       IN  /\ map' = r.map
           /\ vect' = r.vect
           /\ base' = Len(r.vect)
    /\ last' = Call("reset", NoVal, NoName, NoName, NoVal, FALSE)
    /\ appends' = 0
    /\ before' = before \cup issued
    /\ issued' = {}
    /\ inherited' = other.log
    /\ prefilled' = <<>>
    /\ resets' = resets + 1
    /\ UNCHANGED <<kind, calls, stale, wide>>
    /\ twin' = NoTwin
    /\ cells' = Ran(StrInterner_reset_cells)

Next ==
    \/ \E text \in Texts : InternerIntern(text)
    \/ \E text \in Texts : InternerGensym(text)
    \/ \E idx \in Names : InternerGet(idx)
    \/ InternerLen
    \/ \E text \in Texts : InternerFind(text)
    \/ InternerClear
    \/ \E text \in Texts : StrInternerIntern(text)
    \/ \E text \in Texts : StrInternerGensym(text)
    \/ \E idx \in Names : StrInternerGensymCopy(idx)
    \/ \E idx \in Names : StrInternerGet(idx)
    \/ StrInternerLen
    \/ \E text \in Texts : StrInternerFind(text)
    \/ StrInternerClear
    \/ \E other \in OtherTables : StrInternerReset(other)

Spec == Init /\ [][Next]_vars

----------------------------------------------------------------------------
\* SpecWide: the computation of new handles at store lengths around 2^32, on
\* a target whose usize has 64 bits.  TLC cannot hold a vector of
\* 2^32 entries, so the store is given by its length alone: wide.len.  An
\* appending call (an intern call whose value the map does not hold, gensym,
\* gensym_copy) returns Name(len as u32) and pushes: ret is the handle
\* returned, pos the position the value is stored at, issued the handles
\* known to be issued, and fresh says that ret was not among them.  The
\* other variables stay as new() leaves them.

\* The store lengths SpecWide starts from: lengths a store reaches by that
\* many appending calls.
WideStarts ==
    {[hi |-> h, lo |-> l] : h \in {0, Half - 1, Half},
                            l \in 0 .. WideMargin \cup (Half - 1 - WideMargin) .. (Half - 1)}

\* The handle of the entry at position 0 was issued when the store was empty.
InitWide ==
    /\ InternerNew \/ StrInternerNew
    /\ \E len \in WideStarts :
           wide = [NoWide EXCEPT !.len = len,
                                 !.issued = IF len = WideZero THEN {} ELSE {WideZero}]

WideAppend(op) ==
    /\ wide.calls < WideCalls
    /\ LET new_idx == WideAsU32(wide.len)
       IN  wide' = [len |-> WideSucc(wide.len), op |-> op, ret |-> new_idx,
                    pos |-> wide.len, calls |-> wide.calls + 1,
                    issued |-> wide.issued \cup {new_idx},
                    fresh |-> new_idx \notin wide.issued]
    /\ UNCHANGED <<kind, map, vect, last, calls, resets, appends, base, issued, before,
                   stale, inherited, prefilled, twin, cells>>

\* intern of a value that the dedup map does not hold.
WideIntern == WideAppend("intern")

WideGensym == WideAppend("gensym")

\* gensym_copy of an entry of a StrInterner that is not empty.
WideGensymCopy ==
    /\ kind = "StrInterner"
    /\ wide.len # WideZero
    /\ WideAppend("gensym_copy")

WideClear ==
    /\ wide' = [NoWide EXCEPT !.op = "clear"]
    /\ UNCHANGED <<kind, map, vect, last, calls, resets, appends, base, issued, before,
                   stale, inherited, prefilled, twin, cells>>

NextWide ==
    \/ WideIntern
    \/ WideGensym
    \/ WideGensymCopy
    \/ WideClear

SpecWide == InitWide /\ [][NextWide]_vars

----------------------------------------------------------------------------
\* Properties.

InternCalls == {c \in issued : c.op = "intern"}
GensymCalls == {c \in issued : c.op = "gensym"}

\* The calls that returned a handle since creation or the last clear, a reset
\* in between or not.
SinceClear == issued \cup before

\* C1: intern(v) called twice in a row returns the same handle both times,
\* and the second call changes neither the dense store nor the dedup map
\* (len() does not grow).
C1_InternTwice ==
    /\ [](last.op = "intern" /\ last.again
            => last.ret = last.ret0 /\ LenNow = last.len0)
    /\ [][(last.op = "intern" /\ last'.op = "intern" /\ last'.val = last.val)
            => (last'.ret = last.ret /\ map' = map /\ vect' = vect)]_vars

\* Reached: the second of two successive intern calls of one text has
\* returned, with another entry stored before that text's.
C1_Witness ==
    /\ last.op = "intern"
    /\ last.again
    /\ last.ret = 1

\* C2: with no clear or reset in between, two intern calls with unequal values
\* return different handles, whatever calls were made between them.
C2_DistinctValues ==
    \A a \in InternCalls : \A b \in InternCalls :
        a.val # b.val => a.h # b.h

\* Reached: two unequal values interned, with a gensym between the two calls.
C2_Witness ==
    \E a \in InternCalls : \E b \in InternCalls : \E g \in GensymCalls :
        a.val # b.val /\ a.h < g.h /\ g.h < b.h

\* C3, as claimed: two successive gensym(v) calls return different handles,
\* and no handle returned by gensym equals a handle returned by intern since
\* creation or the last clear.
C3_GensymFreshSinceClear ==
    /\ last.op = "gensym" /\ last.again => last.ret # last.ret0
    /\ \A g \in SinceClear : \A i \in SinceClear :
           g.op = "gensym" /\ i.op = "intern" => g.h # i.h

\* C3, amended: two successive gensym(v) calls return different handles, and
\* no handle returned by gensym equals a handle returned by intern since
\* creation or the last clear or reset.
C3_GensymFresh ==
    /\ last.op = "gensym" /\ last.again => last.ret # last.ret0
    /\ \A g \in GensymCalls : \A i \in InternCalls : g.h # i.h

\* Reached: the second of two successive gensym calls of a text that was
\* interned before them.
C3_Witness ==
    /\ last.op = "gensym"
    /\ last.again
    /\ \E i \in InternCalls : i.val = last.val


\* C4, as claimed: for every handle h returned by intern or gensym since the
\* last clear, get(h) at any later point up to the next clear returns a value
\* equal to the one passed to the call that returned h.
C4_RoundTripSinceClear ==
    /\ \A c \in SinceClear :
           c.op \in {"intern", "gensym"}
               => ~GetNow(c.h).fatal /\ GetNow(c.h).out.text = c.val
    /\ last.op = "get"
           => \A c \in SinceClear :
                  c.op \in {"intern", "gensym"} /\ c.h = last.idx
                      => ~last.fatal /\ last.out = c.val

\* C4, amended: for every handle h returned by intern or gensym since the
\* last clear or reset, get(h) at any later point up to the next clear or
\* reset returns a value equal to the one passed to the call that returned h.
C4_RoundTrip ==
    /\ \A c \in issued :
           c.op \in {"intern", "gensym"}
               => ~GetNow(c.h).fatal /\ GetNow(c.h).out.text = c.val
    /\ last.op = "get"
           => \A c \in issued :
                  c.op \in {"intern", "gensym"} /\ c.h = last.idx
                      => ~last.fatal /\ last.out = c.val

\* Reached: get of a handle that gensym returned, called after a later call
\* has appended another entry.
C4_Witness ==
    /\ last.op = "get"
    /\ ~last.fatal
    /\ \E c \in GensymCalls : c.h = last.idx /\ c.val = last.out /\ c.h + 1 < last.len0

\* The handles that a set of calls returned.
Handles(log) == {c.h : c \in log}

\* What C5 says of one call: the first intern or gensym on an empty interner
\* returns 0, and a call that appends an entry returns len() as it was before
\* the call and increases len() by one.
NextHandle ==
    /\ last.op \in {"intern", "gensym"} /\ last.len0 = 0 => last.ret = 0
    /\ last.op \in {"gensym", "gensym_copy"} /\ ~last.fatal
           => last.ret = last.len0 /\ LenNow = last.len0 + 1
    /\ last.op = "intern"
           => \/ LenNow = last.len0
              \/ last.ret = last.len0 /\ LenNow = last.len0 + 1

\* C5, as claimed: handles are assigned sequentially, so the handles issued
\* since creation or the last clear are exactly 0 .. len() - 1.  The handles
\* of a table that reset installed count as issued.
C5_SequentialSinceClear ==
    /\ NextHandle
    /\ Handles(SinceClear \cup inherited) = 0 .. LenNow - 1

\* C5, amended: handles are assigned sequentially; the handles issued since
\* creation or the last clear or reset, together with those of the table that
\* reset installed, are exactly 0 .. len() - 1: the handles issued since then
\* are all below len() and include every handle from the length the table had
\* then (0 after creation or clear, the installed table's length after reset)
\* up to len() - 1.
C5_Sequential ==
    /\ NextHandle
    /\ Handles(issued \cup inherited) = 0 .. LenNow - 1
    /\ Handles(issued) \subseteq 0 .. LenNow - 1
    /\ base .. LenNow - 1 \subseteq Handles(issued)
    /\ resets = 0 => Handles(issued) = 0 .. LenNow - 1

\* Reached: after a reset that installed a one-entry table, two appending
\* calls have returned handles 1 and 2.
C5_Witness ==
    /\ base = 1
    /\ last.op = "gensym_copy"
    /\ last.ret = 2
    /\ Handles(issued) = {1, 2}

\* C6, as claimed: len() equals the number of intern calls plus the number of
\* gensym calls made since creation or the last clear.
C6_LenCountsCalls ==
    /\ LenNow = calls
    /\ last.op = "len" => last.ret = calls

\* C6, amended: len() equals the number of entries appended since creation or
\* the last clear or reset (one for every intern call whose value the dedup
\* map did not hold, one for every gensym and gensym_copy call, none for an
\* intern call that returns an existing handle), plus the length of the table
\* the last reset installed, if there was one.
C6_LenCountsAppends ==
    /\ LenNow = base + appends
    /\ last.op = "len" => last.ret = base + appends

\* Reached: len() returned 2 after three interning calls, one of which found
\* its value already interned.
C6_Witness ==
    /\ last.op = "len"
    /\ last.ret = 2
    /\ calls = 3
    /\ appends = 2


\* The handles of the current entries that gensym or gensym_copy appended,
\* and the texts that were inserted through gensym or gensym_copy only.
Minted == {c.h : c \in {x \in issued \cup inherited : x.op # "intern"}}

GensymOnly(text) ==
    /\ \E c \in issued \cup inherited : c.op # "intern" /\ c.val = text
    /\ \A c \in issued \cup inherited : c.val = text => c.op # "intern"

\* C7: find(v) never returns a handle minted by gensym or gensym_copy; when v
\* was inserted through gensym or gensym_copy only, find(v) reports absence,
\* and a following intern(v) appends a new entry whose handle differs from
\* every gensym-created one, after which find(v) returns that handle.
C7_GensymHygiene ==
    /\ [](/\ \A text \in Texts :
                /\ FindNow(text) \notin Minted
                /\ GensymOnly(text) => FindNow(text) = NoName
          /\ last.op = "find" => last.ret \notin Minted)
    /\ [][\A text \in Texts :
              (GensymOnly(text) /\ last'.op = "intern" /\ last'.val = text)
                  => /\ Len(vect') = Len(vect) + 1
                     /\ last'.ret \notin Minted
                     /\ FindNow(text)' = last'.ret]_vars

\* Reached: find(v) has returned the handle of the interned entry of a text
\* that gensym had stored before at a smaller handle.
C7_Witness ==
    /\ last.op = "find"
    /\ last.ret # NoName
    /\ \E g \in GensymCalls : g.val = last.val /\ g.h < last.ret

\* C8: every dedup-map entry v -> n has n < len() and the dense store holds a
\* value equal to v at position n; no two keys map to the same handle.
C8_Lockstep ==
    /\ \A k \in DOMAIN map :
           /\ map[k] \in 0 .. LenNow - 1
           /\ Key(vect[map[k] + 1]) = k
    /\ \A k1 \in DOMAIN map : \A k2 \in DOMAIN map :
           k1 # k2 => map[k1] # map[k2]

\* Reached: a StrInterner that was cleared, then reset to a table holding one
\* interned text, and has interned the other text since.
C8_Witness ==
    /\ stale # NoName
    /\ resets = 1
    /\ base = 1
    /\ DOMAIN map = Texts
    /\ last.op = "intern"

\* C9: get(h) with h >= len() panics instead of returning a value, and leaves
\* the map and the store as they were.
C9_OutOfRangeGetFatal ==
    /\ [](last.op = "get" /\ last.idx >= last.len0
             => last.fatal /\ last.out = NoVal)
    /\ [][(last'.op = "get" /\ last'.idx >= Len(vect))
             => (last'.fatal /\ map' = map /\ vect' = vect)]_vars

\* Reached: get(13) on an empty table has panicked.
C9_Witness ==
    /\ last.op = "get"
    /\ last.idx = TestHandle
    /\ last.len0 = 0
    /\ last.fatal

\* C10, as claimed, for the handle the model tracks: get(h) with a handle that
\* was issued before the last clear panics, however many intern and gensym
\* calls followed the clear.  A handle that a table installed by reset brought
\* along is left aside.
C10_StaleGetFatal ==
    last.op = "get" /\ last.idx = stale /\ last.idx \notin Handles(inherited)
        => last.fatal

\* C10, amended: get(h) panics exactly when h >= len() at the time of the
\* call.  A handle issued before a clear is not recognised as stale: once
\* later calls have stored an entry at its position, get returns that entry.
C10_GetFatalIffOutOfRange ==
    last.op = "get"
        => /\ last.fatal <=> last.idx >= last.len0
           /\ ~last.fatal => last.out = vect[last.idx + 1].text

\* Reached: get of a handle issued before the last clear has returned the
\* value of an entry appended after the clear.
C10_Witness ==
    /\ last.op = "get"
    /\ last.idx = stale
    /\ last.idx \in Handles(issued)
    /\ ~last.fatal


\* No interning call and no reset was made since the constructor returned (or,
\* with prefilled = <<>>, since the last clear).
AsBuilt == resets = 0 /\ calls = Len(prefilled)

\* A list without two equal elements.
Distinct(list) ==
    \A i \in 1 .. Len(list) : \A j \in 1 .. Len(list) : i # j => list[i] # list[j]

\* The table that new() followed by one intern call for each of the first n
\* elements of list, in list order, leaves.
RECURSIVE InternEach(_, _)
InternEach(list, n) ==
    IF n = 0
        THEN IF kind = "Interner" THEN Interner_new ELSE StrInterner_new
        ELSE LET t == InternEach(list, n - 1)
                 r == IF kind = "Interner"
                          THEN Interner_intern(t, RcList(list)[n])
                          ELSE StrInterner_intern(t, list[n])
             IN  [map |-> r.map, vect |-> r.vect]

\* C11: prefill of a list of n pairwise distinct values yields an interner
\* with len() = n in which get(i) is the list's element i for every i < n; it
\* is in the state that new() followed by intern of each element, in list
\* order, leaves; and a later intern of element i returns handle i without
\* adding an entry.
C11_PrefillOrder ==
    /\ [](Distinct(prefilled)
            => /\ \A i \in 0 .. Len(prefilled) - 1 :
                      ~GetNow(i).fatal /\ GetNow(i).out.text = prefilled[i + 1]
               /\ AsBuilt
                      => /\ LenNow = Len(prefilled)
                         /\ Tab = InternEach(prefilled, Len(prefilled))
                         /\ last.op = "len" => last.ret = Len(prefilled)
               /\ last.op = "get" /\ last.idx < Len(prefilled)
                      => ~last.fatal /\ last.out = prefilled[last.idx + 1])
    /\ [][\A i \in 0 .. Len(prefilled) - 1 :
              (Distinct(prefilled) /\ last'.op = "intern" /\ last'.val = prefilled[i + 1])
                  => (last'.ret = i /\ map' = map /\ vect' = vect)]_vars

\* Reached: an interner prefilled with two different texts has been asked to
\* intern the second of them and has returned handle 1.
C11_Witness ==
    /\ Len(prefilled) = 2
    /\ Distinct(prefilled)
    /\ last.op = "intern"
    /\ last.val = prefilled[2]
    /\ last.ret = 1
    /\ LenNow = 2

\* The elements of a list, the position (from 0) of the first occurrence of v
\* in it, and the number of different values that occur before that position.
Elems(list) == {list[i] : i \in 1 .. Len(list)}

FirstPos(list, v) ==
    (CHOOSE i \in 1 .. Len(list) :
         list[i] = v /\ \A j \in 1 .. i - 1 : list[j] # v) - 1

Rank(list, v) == Cardinality({list[j] : j \in 1 .. FirstPos(list, v)})

\* C12, as claimed: after prefill of a list that may hold duplicates, all
\* occurrences of a value v have one handle, the result of find(v) and of a
\* later intern(v), and that handle is the position of the first occurrence
\* of v in the list.
C12_PrefillFirstPosition ==
    /\ \A v \in Elems(prefilled) : FindNow(v) = FirstPos(prefilled, v)
    /\ last.op \in {"find", "intern"} /\ last.val \in Elems(prefilled)
           => last.ret = FirstPos(prefilled, last.val)

\* C12, amended: after prefill of a list that may hold duplicates, all
\* occurrences of a value v have one handle, the result of find(v) and of a
\* later intern(v), and that handle is the number of different values that
\* occur in the list before the first occurrence of v; the store holds one
\* entry for every different value of the list.
C12_PrefillDuplicates ==
    /\ \A v \in Elems(prefilled) :
           /\ FindNow(v) = Rank(prefilled, v)
           /\ GetNow(Rank(prefilled, v)).out.text = v
    /\ last.op \in {"find", "intern"} /\ last.val \in Elems(prefilled)
           => last.ret = Rank(prefilled, last.val)
    /\ AsBuilt => LenNow = Cardinality(Elems(prefilled))

\* Reached: after prefill of a list that holds one text twice and then the
\* other text, find of the other text has returned handle 1.
C12_Witness ==
    /\ Len(prefilled) = 3
    /\ prefilled[1] = prefilled[2]
    /\ prefilled[3] # prefilled[1]
    /\ last.op = "find"
    /\ last.val = prefilled[3]
    /\ last.ret = 1


\* The table new() returns for the kind of the instance.
NewTable == IF kind = "Interner" THEN Interner_new ELSE StrInterner_new

\* C13: after clear(), from whatever state it was called in, len() is 0,
\* find(v) reports absence for every v, get panics for every handle, the
\* fields are those of new(), and the next intern or gensym returns handle 0.
C13_ClearIsNew ==
    /\ [](last.op = "clear"
            => /\ LenNow = 0
               /\ \A v \in Texts : FindNow(v) = NoName
               /\ \A idx \in Names : GetNow(idx).fatal
               /\ Tab = NewTable)
    /\ [][(last.op = "clear" /\ last'.op \in {"intern", "gensym"})
             => (last'.ret = 0 /\ Len(vect') = 1)]_vars

\* Reached: clear() has returned on a table that held three entries, two of
\* them interned texts.
C13_Witness ==
    /\ last.op = "clear"
    /\ last.len0 = 3
    /\ stale = 2
    /\ map = EmptyMap

\* C14: s.reset(o) leaves s with o's length, o's value at every handle,
\* o's find result for every text and o's next handle; s has o's map and
\* vector, and nothing of its own.
C14_ResetReplaces ==
    [][\A o \in OtherTables :
          StrInternerReset(o)
              => /\ LenNow' = StrInterner_len(o)
                 /\ \A h \in Names : GetNow(h)' = StrInterner_get(o, h)
                 /\ \A t \in Texts :
                        /\ FindNow(t)' = StrInterner_find(o, t)
                        /\ StrInterner_gensym(Tab', t).ret = StrInterner_len(o)
                        /\ StrInterner_find(o, t) = NoName
                               => StrInterner_intern(Tab', t).ret = StrInterner_len(o)
                 /\ map' = o.map
                 /\ vect' = o.vect]_vars

\* Reached: reset has installed a one-entry table that does not hold a text
\* the instance had interned before; find of that text reports absence.
C14_Witness ==
    /\ last.op = "reset"
    /\ LenNow = 1
    /\ \E c \in before :
           /\ c.op = "intern"
           /\ FindNow(c.val) = NoName
           /\ c.val # vect[1].text

\* What C15 says of a gensym_copy(h) call with h < len(), apart from the
\* handles issued before: it returns len() as it was before the call, a
\* handle other than h at which get returns the text get(h) returns, and it
\* leaves the dedup map, and so every find result, as it was.
CopyAppends ==
    /\ [](last.op = "gensym_copy" /\ ~last.fatal
            => /\ last.idx < last.len0
               /\ last.ret = last.len0
               /\ last.ret # last.idx
               /\ LenNow = last.len0 + 1
               /\ ~GetNow(last.ret).fatal
               /\ GetNow(last.ret).out.text = GetNow(last.idx).out.text)
    /\ [][(last'.op = "gensym_copy" /\ last'.idx < Len(vect))
             => /\ ~last'.fatal
                /\ map' = map
                /\ \A t \in Texts : FindNow(t)' = FindNow(t)
                /\ vect'[last'.ret + 1].text = vect[last'.idx + 1].text]_vars

\* C15, as claimed: gensym_copy(h) with h < len() appends a copy of entry h
\* under the handle len(), and that handle differs from every handle
\* returned since the last clear.
C15_CopyFreshSinceClear ==
    /\ CopyAppends
    /\ [][(last'.op = "gensym_copy" /\ ~last'.fatal)
             => last'.ret \notin Handles(SinceClear)]_vars

\* C15, amended: gensym_copy(h) with h < len() appends a copy of entry h
\* under the handle len(), and that handle differs from every handle
\* returned since the last clear or reset and from every handle of the
\* table the last reset installed.
C15_CopyFresh ==
    /\ CopyAppends
    /\ [][(last'.op = "gensym_copy" /\ ~last'.fatal)
             => last'.ret \notin Handles(issued \cup inherited)]_vars

\* Reached: gensym_copy of an interned entry has returned handle 2; find of
\* the entry's text still returns the interned entry's handle.
C15_Witness ==
    /\ last.op = "gensym_copy"
    /\ ~last.fatal
    /\ last.ret = 2
    /\ \E c \in InternCalls :
           c.h = last.idx /\ FindNow(c.val) = last.idx /\ vect[3].text = c.val


\* C16: a call of intern, gensym, gensym_copy, get, find or len leaves every
\* entry of the store as it was (get(h) returns the same value for every h
\* below the former len()) and does not shorten the store; find, get and len
\* change neither the store nor the dedup map.
C16_AppendOnly ==
    [][/\ last'.op \notin {"clear", "reset"}
           => /\ Len(vect') >= Len(vect)
              /\ \A h \in 0 .. Len(vect) - 1 : GetNow(h)' = GetNow(h)
       /\ last'.op \in {"find", "get", "len"} => map' = map /\ vect' = vect]_vars

\* Reached: gensym has appended a third entry behind two entries of
\* different texts.
C16_Witness ==
    /\ last.op = "gensym"
    /\ last.ret = 2
    /\ LenNow = 3
    /\ vect[1].text # vect[2].text


\* The texts a vector holds, position by position.
TextsOf(v) == [i \in 1 .. Len(v) |-> v[i].text]

\* C17: a StrInterner and an Interner<Rc<String>> that start from new() or
\* from prefill of the same list and are given the same intern, gensym, get,
\* find, len and clear calls with the same texts return the same handle,
\* optional handle or length, or a value of the same text, in every call,
\* and panic in the same get calls; they hold the same texts at the same
\* positions under the same dedup map.
C17_Equivalent ==
    kind = "StrInterner" /\ twin.ok
        => /\ last.op \in {"intern", "gensym", "get", "find", "len", "clear"}
                  => /\ last.ret = twin.ret
                     /\ last.out = twin.out
                     /\ last.fatal = twin.fatal
           /\ LenNow = Interner_len(twin)
           /\ TextsOf(vect) = TextsOf(twin.vect)
           /\ map = twin.map

\* Reached: both interners have returned handle 2 for find of a text that
\* was stored by gensym at handle 0 before it was interned.
C17_Witness ==
    /\ kind = "StrInterner"
    /\ twin.ok
    /\ last.op = "find"
    /\ last.ret = 2
    /\ twin.ret = 2
    /\ \E g \in GensymCalls : g.val = last.val /\ g.h = 0


\* C18: called one after another, intern, gensym, find, len, clear, prefill
\* and reset, and gensym_copy with a handle below len(), return without a
\* panic: no call takes a borrow of map or vect that conflicts with one it
\* holds, and when a call is over neither cell is borrowed.
C18_NoBorrowConflict ==
    /\ ~cells.panicked
    /\ cells.map = UnusedCell
    /\ cells.vect = UnusedCell
    /\ last.op \in {"intern", "gensym", "find", "len", "clear", "prefill", "reset"}
           => ~last.fatal
    /\ last.op = "gensym_copy" /\ last.idx < last.len0 => ~last.fatal

\* Reached: StrInterner::intern has made an entry in a table that was not
\* empty: it called len() and pushed to vect while it held the RefMut of map.
C18_Witness ==
    /\ kind = "StrInterner"
    /\ last.op = "intern"
    /\ last.len0 = 2
    /\ last.ret = 2
    /\ LenNow = 3
    /\ cells = UnusedCells

\* C19, as claimed: for every entry appended by intern, gensym or gensym_copy
\* the value of the handle returned, the store length converted to u32, is
\* the position at which the value was stored, at every store length, and
\* the handle is none that was issued before.
C19_HandleIsPosition ==
    wide.op \in {"intern", "gensym", "gensym_copy"}
        => /\ wide.ret = wide.pos
           /\ wide.fresh

\* C20: gensym_copy(h) with h >= len() panics before anything is appended:
\* the fields, and so len(), every get and every find result, are as before,
\* no cell is left borrowed, and a later intern or gensym returns a handle.
C20_InvalidCopyFails ==
    /\ [](last.op = "gensym_copy" /\ last.idx >= last.len0
            => /\ last.fatal
               /\ last.ret = NoName
               /\ LenNow = last.len0
               /\ cells.map = UnusedCell
               /\ cells.vect = UnusedCell)
    /\ [][(last'.op = "gensym_copy" /\ last'.idx >= Len(vect))
             => /\ last'.fatal
                /\ map' = map
                /\ vect' = vect
                /\ LenNow' = LenNow
                /\ \A h \in Names : GetNow(h)' = GetNow(h)
                /\ \A t \in Texts : FindNow(t)' = FindNow(t)]_vars
    /\ [][(last.op = "gensym_copy" /\ last.fatal /\ last'.op \in {"intern", "gensym"})
             => (~last'.fatal /\ ~cells'.panicked /\ last'.ret \in 0 .. Len(vect))]_vars

\* Reached: gensym_copy(2) has panicked on a table of two entries, one of
\* them interned.
C20_Witness ==
    /\ last.op = "gensym_copy"
    /\ last.fatal
    /\ last.idx = 2
    /\ last.len0 = 2
    /\ LenNow = 2
    /\ DOMAIN map # {}


====
